---- MODULE Spec2Model ----
(***************************************************************************)
(* Model of pdu_prometheus_api.py: the configuration load, the poll loop,  *)
(* poll_device, snmp_walk and the Prometheus registry they write to.       *)
(*                                                                         *)
(* One PDU is configured (PDU_IP), so the "ip" label is the same in every  *)
(* label set and is left out of the registry keys.                         *)
(*                                                                         *)
(* Object identifiers are triples <<category, index, k>>: k = 0 is a base  *)
(* identifier as written in config.yaml, k >= 1 the k-th leaf below it.    *)
(*                                                                         *)
(* Floats are modelled in fixed point, in thousandths: the float 0.3 is    *)
(* the integer 300.  Every raw value the model draws is an integer, so     *)
(* "* 10" and "* 0.001" are exact in this representation.                  *)
(***************************************************************************)
EXTENDS Integers, Sequences, FiniteSets, TLC

\* ------------------------------------------------------------------ bounds

\* Leaves below each base identifier.
MaxLeaf == 1

\* Poll cycles the model lets poll_loop start.
MaxCycles == 2

\* Transport events in one run: responses that carry a value, plus walks
\* that end in an error response or an exception.
MaxEvents == 3

\* ------------------------------------------------------- program constants

\* Fixed-point denominator: the 0.001 of line 66 is 1 / Milli.
Milli == 1000

\* The factor of line 58 (val * 10).
EnergyFactor == 10

\* Line 33 asks for one ObjectType, so a response carries at most one
\* variable binding.
VarBindsPerResponse == 1

\* Numbers of servers in the configurations drawn.
ServerCounts == {0, 1, 2}

\* Raw values a device returns (str(val) of an SNMP value).
RawValues == {-1, 300}

\* A value whose str() is not a float literal.
NonNumeric == "non-numeric"

\* ------------------------------------------------------------ configuration

Missing == <<"missing", 0, 0>>
MissingName == <<"missing", 0>>

VOLTAGE_BASE == <<"V", 0, 0>>
ENERGY_BASE == <<"E", 0, 0>>
CurrentBase(i) == <<"C", i, 0>>
ServerName(i) == <<"srv", i>>

\* Server lists of length n; entry i is server i, with or without its keys.
ServerLists(n) ==
    { s \in [1..n -> [name : {MissingName} \cup {ServerName(i) : i \in 1..n},
                      current_oid : {Missing} \cup {CurrentBase(i) : i \in 1..n}]] :
        \A i \in 1..n : /\ s[i].name \in {MissingName, ServerName(i)}
                        /\ s[i].current_oid \in {Missing, CurrentBase(i)} }

\* The contents of config.yaml: each key present or missing.
Configs ==
    [voltage_oid : {Missing, VOLTAGE_BASE},
     energy_oid : {Missing, ENERGY_BASE},
     has_servers : {TRUE},
     servers : UNION { ServerLists(n) : n \in ServerCounts }]
    \cup
    [voltage_oid : {Missing, VOLTAGE_BASE},
     energy_oid : {Missing, ENERGY_BASE},
     has_servers : {FALSE},
     servers : {<<>>}]

\* What lines 12-15 look up: the top-level keys only.
LoadSucceeds(c) ==
    /\ c.voltage_oid # Missing
    /\ c.energy_oid # Missing
    /\ c.has_servers

\* server['name'] and server['current_oid'] (lines 62-63) do not raise.
ServerEntryOk(s) == s.name # MissingName /\ s.current_oid # Missing

\* ------------------------------------------------------------- identifiers

Leaf(b, k) == <<b[1], b[2], k>>
Subtree(b) == { Leaf(b, k) : k \in 1..MaxLeaf }

\* ---------------------------------------------------------------- registry

GaugeSetReplacing(g, key, v) == (key :> v)

\* Gauge.labels(...).set(v)
GaugeSet(g, key, v) == (key :> v) @@ g

\* Counter.labels(...) creates the child at 0 when it is new.
CounterChild(c, key) == IF key \in DOMAIN c THEN c ELSE (key :> 0) @@ c

CounterIncUnchecked(c, key, amount) ==
    [counter |-> [CounterChild(c, key) EXCEPT ![key] = @ + amount],
     raised |-> FALSE]

\* Counter.labels(...).inc(amount): prometheus_client raises ValueError on a
\* negative amount, after labels() has created the child.
CounterInc(c, key, amount) ==
    IF amount < 0
    THEN [counter |-> CounterChild(c, key), raised |-> TRUE]
    ELSE [counter |-> [CounterChild(c, key) EXCEPT ![key] = @ + amount],
          raised |-> FALSE]

\* ---------------------------------------------------------- unit converter

\* float(str(val)) of line 43, in thousandths.
ToFloat(raw) == raw * Milli

\* val * 10 of line 58.
EnergyToWh(v) == v * EnergyFactor

AmpsUnscaled(v) == v

\* val * 0.001 of line 66.
MilliampsToAmps(v) == v \div Milli

\* ------------------------------------------------------------------- state

VARIABLES
    config,          \* the parsed config.yaml
    pc,              \* where the process is: load, load_failed, loaded, started,
                     \* walk, hung, sleep, dead
    target,          \* the walk in flight: 0 voltage, 1 energy, 1 + i server i
    results,         \* snmp_walk's results list of the walk in flight
    cycles,          \* poll cycles started so far
    events,          \* value responses and failed walks so far
    voltage_gauge,   \* VOLTAGE_GAUGE: oid -> value
    current_gauge,   \* CURRENT_GAUGE: <<server, oid>> -> value
    energy_counter,  \* ENERGY_COUNTER: oid -> value
    snmp_failures,   \* SNMP_FAILURES: oid -> count
    ev,              \* the step just taken (history, read by the properties only)
    cycle_log        \* when on: the registry at the start of the cycle and the
                     \* walks ended in it, in order (history)

vars == <<config, pc, target, results, cycles, events, voltage_gauge, current_gauge,
          energy_counter, snmp_failures, ev, cycle_log>>

registry == <<voltage_gauge, current_gauge, energy_counter, snmp_failures>>

Empty == [x \in {} |-> 0]

\* body is the content served by a scrape, <<>> for every other step.
Event(kind, t, outcome, rs, binds) ==
    [kind |-> kind, target |-> t, outcome |-> outcome, results |-> rs, binds |-> binds,
     body |-> <<>>]

\* The base identifier poll_device passes to snmp_walk for walk t.
BaseOf(t) ==
    IF t = 0 THEN config.voltage_oid
    ELSE IF t = 1 THEN config.energy_oid
    ELSE config.servers[t - 1].current_oid

\* Walks of one cycle: voltage, energy, one per server.
LastTarget == 1 + Len(config.servers)

\* A walk as it ended: its target, how it ended, what it returned.
Walk(t, outcome, rs, binds) ==
    [target |-> t, outcome |-> outcome, results |-> rs, binds |-> binds]

NoLog(on) == [on |-> on, reg0 |-> <<Empty, Empty, Empty, Empty>>, walks |-> <<>>]

\* The cycle log once poll_device has started a cycle.
LogCycleStart == IF cycle_log.on THEN [cycle_log EXCEPT !.reg0 = registry, !.walks = <<>>]
                 ELSE cycle_log

\* The cycle log once walk w has ended.
LogWalk(w) == IF cycle_log.on THEN [cycle_log EXCEPT !.walks = Append(@, w)]
              ELSE cycle_log

InitWith(on) ==
    /\ cycle_log = NoLog(on)
    /\ config \in Configs
    /\ pc = "load"
    /\ target = 0
    /\ results = <<>>
    /\ cycles = 0
    /\ events = 0
    /\ voltage_gauge = Empty
    /\ current_gauge = Empty
    /\ energy_counter = Empty
    /\ snmp_failures = Empty
    /\ ev = Event("init", 0, "none", <<>>, <<>>)

Init == InitWith(FALSE)

\* ------------------------------------------------------------ poll_device

RECURSIVE PublishVoltage(_, _)
\* Lines 52-53.
PublishVoltage(g, rs) ==
    IF rs = <<>> THEN g
    ELSE PublishVoltage(GaugeSet(g, Head(rs)[1], Head(rs)[2]), Tail(rs))

RECURSIVE PublishEnergy(_, _)
\* Lines 57-58: the loop stops at the first inc() that raises.
PublishEnergy(c, rs) ==
    IF rs = <<>> THEN [counter |-> c, raised |-> FALSE]
    ELSE LET r == CounterInc(c, Head(rs)[1], EnergyToWh(Head(rs)[2]))
         IN IF r.raised THEN r ELSE PublishEnergy(r.counter, Tail(rs))

RECURSIVE PublishCurrent(_, _, _)
\* Lines 65-66.
PublishCurrent(g, name, rs) ==
    IF rs = <<>> THEN g
    ELSE PublishCurrent(GaugeSet(g, <<name, Head(rs)[1]>>, MilliampsToAmps(Head(rs)[2])),
                        name, Tail(rs))

IncEachFresh(f, binds) ==
    IF binds = <<>> THEN f
    ELSE [key \in {binds[i] : i \in 1..Len(binds)} |-> 1]

RECURSIVE IncEach(_, _)
\* Lines 37-39: one inc() per variable binding of the error response.
IncEach(f, binds) ==
    IF binds = <<>> THEN f
    ELSE IncEach(CounterInc(f, Head(binds), 1).counter, Tail(binds))

\* snmp_walk returns rs for walk t; poll_device publishes them and goes on to
\* the next walk, or returns to poll_loop, or raises.
Continue(t, rs) ==
    LET energy == IF t = 1 THEN PublishEnergy(energy_counter, rs)
                  ELSE [counter |-> energy_counter, raised |-> FALSE]
        more == t < LastTarget
        keyError == more /\ t >= 1 /\ ~ServerEntryOk(config.servers[t])
    IN  /\ voltage_gauge' = IF t = 0 THEN PublishVoltage(voltage_gauge, rs)
                            ELSE voltage_gauge
        /\ energy_counter' = energy.counter
        /\ current_gauge' = IF t >= 2
                            THEN PublishCurrent(current_gauge, config.servers[t - 1].name, rs)
                            ELSE current_gauge
        /\ pc' = IF energy.raised \/ keyError THEN "dead"
                 ELSE IF more THEN "walk" ELSE "sleep"
        /\ target' = IF energy.raised \/ keyError \/ ~more THEN t ELSE t + 1
        /\ results' = <<>>

\* ---------------------------------------------------------------- actions

\* Lines 9-15: a missing top-level key raises KeyError at import.
LoadConfig ==
    /\ pc = "load"
    /\ pc' = IF LoadSucceeds(config) THEN "loaded" ELSE "load_failed"
    /\ ev' = Event("load", 0, "none", <<>>, <<>>)
    /\ UNCHANGED <<cycle_log, config, target, results, cycles, events, registry>>

\* Lines 77-79: the poll_loop task is created.
StartupEvent ==
    /\ pc = "loaded"
    /\ pc' = "started"
    /\ ev' = Event("startup", 0, "none", <<>>, <<>>)
    /\ UNCHANGED <<cycle_log, config, target, results, cycles, events, registry>>

CycleStartEager ==
    /\ pc \in {"started", "sleep", "walk"}
    /\ cycles < MaxCycles
    /\ cycles' = cycles + 1
    /\ pc' = "walk"
    /\ target' = 0
    /\ results' = <<>>
    /\ ev' = Event("cycle_start", 0, "none", <<>>, <<>>)
    /\ cycle_log' = LogCycleStart
    /\ UNCHANGED <<config, events, registry>>

\* Lines 70-71, 51, 27-29: poll_loop calls poll_device, which starts the
\* voltage walk; the first time, and again after each sleep (line 72).
CycleStart ==
    /\ pc \in {"started", "sleep"}
    /\ cycles < MaxCycles
    /\ cycles' = cycles + 1
    /\ pc' = "walk"
    /\ target' = 0
    /\ results' = <<>>
    /\ ev' = Event("cycle_start", 0, "none", <<>>, <<>>)
    /\ cycle_log' = LogCycleStart
    /\ UNCHANGED <<config, events, registry>>

\* Lines 29, 36, 41-43: a response without error, carrying the next leaf of
\* the subtree with a numeric value.
WalkResponse ==
    /\ pc = "walk"
    /\ events < MaxEvents
    /\ events' = events + 1
    /\ LET last == IF results = <<>> THEN 0 ELSE results[Len(results)][1][3]
       IN \E k \in (last + 1)..MaxLeaf, raw \in RawValues :
            /\ results' = Append(results, <<Leaf(BaseOf(target), k), ToFloat(raw)>>)
            /\ ev' = Event("response", target, "none", results', <<>>)
    /\ UNCHANGED <<config, pc, target, cycles, registry, cycle_log>>

\* Line 29 ends the iteration (end of the subtree), line 46 returns.
WalkExhausted ==
    /\ pc = "walk"
    /\ snmp_failures' = snmp_failures
    /\ Continue(target, results)
    /\ ev' = Event("walk_end", target, "clean", results, <<>>)
    /\ cycle_log' = LogWalk(Walk(target, "clean", results, <<>>))
    /\ UNCHANGED <<config, cycles, events>>

\* Sequences of at most n identifiers out of S.
SeqsUpTo(S, n) == UNION { [1..m -> S] : m \in 0..n }

\* Lines 36-40, 46: a response with errorIndication or errorStatus.
WalkErrorResponse ==
    /\ pc = "walk"
    /\ \E binds \in SeqsUpTo({BaseOf(target)} \cup Subtree(BaseOf(target)), VarBindsPerResponse) :
            /\ snmp_failures' = IncEach(snmp_failures, binds)
            /\ ev' = Event("walk_end", target, "error", results, binds)
            /\ cycle_log' = LogWalk(Walk(target, "error", results, binds))
    /\ Continue(target, results)
    /\ events < MaxEvents
    /\ events' = events + 1
    /\ UNCHANGED <<config, cycles>>

\* Lines 44-46: nextCmd raises, or float(str(val)) raises on a value that
\* is not numeric.
WalkException ==
    /\ pc = "walk"
    /\ \E cause \in {"transport", NonNumeric} :
            ev' = Event("walk_end", target, "exception", results, <<cause>>)
    /\ cycle_log' = LogWalk(Walk(target, "exception", results, <<>>))
    /\ snmp_failures' = CounterInc(snmp_failures, BaseOf(target), 1).counter
    /\ Continue(target, results)
    /\ events < MaxEvents
    /\ events' = events + 1
    /\ UNCHANGED <<config, cycles>>

\* Line 29: the awaited response never arrives; nothing in poll_device or
\* poll_loop (lines 71-72) bounds the wait.
TransportHang ==
    /\ pc = "walk"
    /\ pc' = "hung"
    /\ ev' = Event("hang", target, "none", results, <<>>)
    /\ UNCHANGED <<cycle_log, config, target, results, cycles, events, registry>>

\* generate_latest(registry): the label sets of every metric with their
\* values.
GenerateLatest(vg, cg, ec, sf) == <<vg, cg, ec, sf>>

ScrapeClearing ==
    /\ pc \in {"started", "walk", "hung", "sleep", "dead"}
    /\ ev' = [Event("scrape", target, "none", <<>>, <<>>) EXCEPT
                !.body = GenerateLatest(voltage_gauge, current_gauge, energy_counter,
                                        snmp_failures)]
    /\ voltage_gauge' = Empty
    /\ current_gauge' = Empty
    /\ energy_counter' = Empty
    /\ snmp_failures' = Empty
    /\ UNCHANGED <<config, pc, target, results, cycles, events, cycle_log>>

\* Lines 81-83: GET /metrics, served once the application has started, at
\* any point where the poll_loop task is suspended or has ended.
Scrape ==
    /\ pc \in {"started", "walk", "hung", "sleep", "dead"}
    /\ ev' = [Event("scrape", target, "none", <<>>, <<>>) EXCEPT
                !.body = GenerateLatest(voltage_gauge, current_gauge, energy_counter,
                                        snmp_failures)]
    /\ UNCHANGED <<config, pc, target, results, cycles, events, registry, cycle_log>>

\* The steps of the poll_loop task.
PollTask ==
    \/ CycleStart
    \/ WalkResponse
    \/ WalkExhausted
    \/ WalkErrorResponse
    \/ WalkException

Next ==
    \/ LoadConfig
    \/ StartupEvent
    \/ PollTask
    \/ TransportHang
    \/ Scrape

Spec == Init /\ [][Next]_vars

\* The event loop runs a task that is ready to run.
FairSpec == Spec /\ WF_vars(LoadConfig \/ StartupEvent \/ PollTask)

\* The same process with the cycle log kept.
LoggedSpec == InitWith(TRUE) /\ [][Next]_vars

\* Lines 36-45 and 49-66 for one walk: its failure records, then its pairs
\* published in the metric of its target; a raising inc (line 58) leaves
\* poll_device, so nothing after it is applied.
ApplyWalk(reg, w) ==
    LET failures == IF w.outcome = "error" THEN IncEach(reg[4], w.binds)
                    ELSE IF w.outcome = "exception"
                         THEN CounterInc(reg[4], BaseOf(w.target), 1).counter
                         ELSE reg[4]
        energy == IF w.target = 1 THEN PublishEnergy(reg[3], w.results)
                  ELSE [counter |-> reg[3], raised |-> FALSE]
    IN  [registry |-> << IF w.target = 0 THEN PublishVoltage(reg[1], w.results) ELSE reg[1],
                         IF w.target >= 2
                         THEN PublishCurrent(reg[2], config.servers[w.target - 1].name, w.results)
                         ELSE reg[2],
                         energy.counter,
                         failures >>,
         raised |-> energy.raised]

\* The walks ws applied one after the other, as the body of poll_device
\* does, up to the first one that raises.
RECURSIVE ApplyWalks(_, _)
ApplyWalks(reg, ws) ==
    IF ws = <<>> THEN reg
    ELSE LET r == ApplyWalk(reg, ws[1])
         IN  IF r.raised THEN r.registry ELSE ApplyWalks(r.registry, Tail(ws))

\* -------------------------------------------------------------- properties

\* Every required key of config.yaml is present, the servers' keys included.
StructurallyValid(c) ==
    /\ LoadSucceeds(c)
    /\ \A i \in 1..Len(c.servers) : ServerEntryOk(c.servers[i])

\* The step taken ends a walk: snmp_walk returns and poll_device publishes.
EndsWalk == ev'.kind = "walk_end" /\ ev' # ev
EndsWalkCleanly == EndsWalk /\ ev'.outcome = "clean"
EndsWalkFailed == EndsWalk /\ ev'.outcome # "clean"

\* The value of a counter's label set, 0 while it does not exist.
CounterValue(c, key) == IF key \in DOMAIN c THEN c[key] ELSE 0

RECURSIVE SumFor(_, _)
\* The sum of EnergyToWh(value) over the pairs of rs with identifier oid.
SumFor(rs, oid) ==
    IF rs = <<>> THEN 0
    ELSE (IF Head(rs)[1] = oid THEN EnergyToWh(Head(rs)[2]) ELSE 0) + SumFor(Tail(rs), oid)

\* C1: a walk that ends in an error or an exception publishes none of the
\* pairs it had gathered: every gauge and every energy counter keeps the
\* value it had before.
C1_FailedWalkPublishesNothing ==
    [][EndsWalkFailed =>
        /\ voltage_gauge' = voltage_gauge
        /\ current_gauge' = current_gauge
        /\ energy_counter' = energy_counter]_vars

\* C2: a walk that ends in an error or an exception increments the failure
\* counter exactly once, under the walk's base identifier; a walk that ends
\* cleanly increments none.
C2_OneFailurePerFailedWalk ==
    [][EndsWalk =>
        snmp_failures' =
            IF ev'.outcome = "clean" THEN snmp_failures
            ELSE [CounterChild(snmp_failures, BaseOf(ev'.target))
                    EXCEPT ![BaseOf(ev'.target)] = @ + 1]]_vars

\* C3: no step removes an energy counter's label set or lowers its value.
C3_EnergyNonDecreasing ==
    [][\A oid \in DOMAIN energy_counter :
        /\ oid \in DOMAIN energy_counter'
        /\ energy_counter'[oid] >= energy_counter[oid]]_vars

\* C3: an energy walk fails with nothing gathered, in a later cycle than the
\* one that raised the counter, and the counter still holds its value.
C3_Witness ==
    /\ ev.kind = "walk_end"
    /\ ev.target = 1
    /\ ev.outcome # "clean"
    /\ ev.results = <<>>
    /\ \E oid \in DOMAIN energy_counter : energy_counter[oid] > 0

\* C4: with a valid configuration the poll loop never ends, whatever the
\* walks return.
C4_PollLoopNeverEnds ==
    StructurallyValid(config) => pc # "dead"

\* C5: the step that ends a failed walk goes on to the next walk or returns
\* to poll_loop; it never ends the loop.
C5_FailureNotPropagated ==
    (StructurallyValid(config) /\ ev.kind = "walk_end" /\ ev.outcome # "clean")
        => pc # "dead"

\* C6: a cycle whose walk never returns still ends: the scheduler gets back
\* to its sleep.
C6_HungWalkCycleEnds ==
    (pc = "hung") ~> (pc = "sleep")

\* C7: a clean walk with no results leaves the registry as it was, and a
\* failed walk increments a failure counter, so the two can be told apart.
C7_EmptyWalkDistinguishable ==
    [][/\ (EndsWalkCleanly /\ ev'.results = <<>>) => registry' = registry
       /\ EndsWalkFailed => snmp_failures' # snmp_failures]_vars

\* In gauges vg (voltage) and cg (current), the label set of walk t for
\* identifier oid holds v (voltage) or a thousandth of v (current).
GaugeHolds(vg, cg, t, oid, v) ==
    IF t = 0
    THEN oid \in DOMAIN vg /\ vg[oid] = v
    ELSE LET key == <<config.servers[t - 1].name, oid>>
         IN key \in DOMAIN cg /\ cg[key] * Milli = v

\* C8: when a voltage or current walk ends cleanly, the gauge of every pair
\* it returned holds the float of the raw value (voltage) or a thousandth of
\* it (current), whatever it held before, and no failure counter changes.
\* The gauges change in no other step than the end of their own walk, so the
\* values stand at the end of the cycle.
C8_CleanWalkSetsGauges ==
    [][/\ (EndsWalkCleanly /\ ev'.target # 1) =>
            /\ \A i \in 1..Len(ev'.results) :
                    GaugeHolds(voltage_gauge', current_gauge', ev'.target,
                               ev'.results[i][1], ev'.results[i][2])
            /\ snmp_failures' = snmp_failures
       /\ ~(EndsWalk /\ ev'.target = 0) => voltage_gauge' = voltage_gauge
       /\ ~(EndsWalk /\ ev'.target >= 2) => current_gauge' = current_gauge]_vars

\* C8: a clean current walk of a later cycle, the last walk of its cycle, has
\* set the gauge to a thousandth of the raw value 300.
C8_Witness ==
    /\ ev.kind = "walk_end"
    /\ ev.outcome = "clean"
    /\ ev.target >= 2
    /\ cycles >= 2
    /\ ev.results # <<>>
    /\ ev.results[1][2] = ToFloat(300)
    /\ current_gauge[<<config.servers[ev.target - 1].name, ev.results[1][1]>>] * Milli
            = ToFloat(300)
    /\ pc = "sleep"

\* No pair of rs has a negative value.
NonNegative(rs) == \A i \in 1..Len(rs) : rs[i][2] >= 0

\* C9: the energy counter is the sum of raw * 10 over the readings of the
\* energy walks that ended cleanly: a clean energy walk adds raw * 10 for
\* each of its pairs, and no other step changes the counter's value.
\* Stated for the steps whose readings are not negative, where the sum cannot
\* ask the counter to go down.
C9_EnergySumOfCleanReadings ==
    [][NonNegative(ev'.results) =>
        \A oid \in Subtree(ENERGY_BASE) :
            CounterValue(energy_counter', oid) =
                CounterValue(energy_counter, oid)
                + (IF EndsWalkCleanly /\ ev'.target = 1
                   THEN SumFor(ev'.results, oid) ELSE 0)]_vars

\* C10: with a required key missing from the configuration the process never
\* begins polling: no cycle starts, so no walk is issued.
C10_InvalidConfigRejectedAtLoad ==
    ~StructurallyValid(config) => cycles = 0

\* The step taken serves a scrape.
ServesScrape == ev'.kind = "scrape"

\* Every label set of metric m is still a label set of n.
KeepsEntries(m, n) == DOMAIN m \subseteq DOMAIN n

\* C11: no step removes a published label set from any metric; a gauge's
\* value changes only to a reading returned by its own walk, and a counter's
\* value never goes down, so no failure zeroes an entry; a scrape serves the
\* registry as it is and leaves every metric unchanged.
C11_ScrapeServesLastValues ==
    [][/\ KeepsEntries(voltage_gauge, voltage_gauge')
       /\ KeepsEntries(current_gauge, current_gauge')
       /\ KeepsEntries(energy_counter, energy_counter')
       /\ KeepsEntries(snmp_failures, snmp_failures')
       /\ \A key \in DOMAIN voltage_gauge :
            voltage_gauge'[key] # voltage_gauge[key] =>
                /\ EndsWalk /\ ev'.target = 0
                /\ \E i \in 1..Len(ev'.results) :
                        ev'.results[i] = <<key, voltage_gauge'[key]>>
       /\ \A key \in DOMAIN current_gauge :
            current_gauge'[key] # current_gauge[key] =>
                /\ EndsWalk /\ ev'.target >= 2
                /\ \E i \in 1..Len(ev'.results) :
                        ev'.results[i] = <<key[2], current_gauge'[key] * Milli>>
       /\ \A key \in DOMAIN energy_counter : energy_counter'[key] >= energy_counter[key]
       /\ \A key \in DOMAIN snmp_failures : snmp_failures'[key] >= snmp_failures[key]
       /\ ServesScrape =>
            /\ registry' = registry
            /\ ev'.body = registry']_vars

\* C11: a scrape after the second cycle, in which some walk has failed,
\* serves a voltage entry and a failure entry.
C11_Witness ==
    /\ ev.kind = "scrape"
    /\ pc = "sleep"
    /\ cycles = 2
    /\ DOMAIN ev.body[1] # {}
    /\ DOMAIN ev.body[4] # {}

\* C12: a walk ended by a value that is not numeric counts one failure under
\* the walk's base identifier, publishes none of the pairs gathered before
\* it, and the cycle goes on.
C12_NonNumericIsFailure ==
    [][(EndsWalk /\ ev'.outcome = "exception" /\ ev'.binds = <<NonNumeric>>) =>
        /\ snmp_failures' = [CounterChild(snmp_failures, BaseOf(ev'.target))
                                EXCEPT ![BaseOf(ev'.target)] = @ + 1]
        /\ voltage_gauge' = voltage_gauge
        /\ current_gauge' = current_gauge
        /\ energy_counter' = energy_counter
        /\ StructurallyValid(config) => pc' # "dead"]_vars

\* C13: a failure counter's label set is never removed and its value never
\* goes down; it changes only in a step that ends a failed walk, and then by
\* one.
C13_FailuresOnlyIncrement ==
    [][/\ KeepsEntries(snmp_failures, snmp_failures')
       /\ \A key \in DOMAIN snmp_failures' :
            CounterValue(snmp_failures', key) - CounterValue(snmp_failures, key) \in {0, 1}
       /\ snmp_failures' # snmp_failures => EndsWalkFailed]_vars

\* C13: one failure label set counts two failed walks while another counts
\* one.
C13_Witness ==
    \E a, b \in DOMAIN snmp_failures :
        a # b /\ snmp_failures[a] = 2 /\ snmp_failures[b] = 1

\* C14: with a valid configuration every cycle starts with the voltage walk,
\* and the step that ends walk t issues walk t + 1 (energy after voltage, the
\* servers in configuration order after energy) and, after the last server's
\* walk, no further walk: every walk of the cycle is issued, once and in
\* order, whatever the earlier walks returned.
C14_WalksInOrder ==
    [][StructurallyValid(config) =>
        /\ cycles' = cycles + 1 => (pc' = "walk" /\ target' = 0)
        /\ EndsWalk =>
            IF ev'.target < LastTarget
            THEN pc' = "walk" /\ target' = ev'.target + 1
            ELSE pc' # "walk"
        /\ target' # target => (cycles' = cycles + 1 \/ EndsWalk)]_vars

\* C15: a cycle starts only while no cycle is in flight, from the first
\* start or from the sleep, and the sleep is entered only by the step that
\* ends the last walk of the cycle in flight; the poll_loop task is created
\* once, so one walk at most is outstanding.
C15_CyclesNeverOverlap ==
    [][/\ cycles' # cycles =>
            /\ cycles' = cycles + 1
            /\ pc \in {"started", "sleep"}
            /\ pc' = "walk" /\ target' = 0 /\ results' = <<>>
       /\ (pc' = "sleep" /\ pc # "sleep") =>
            /\ pc = "walk"
            /\ EndsWalk /\ ev'.target = LastTarget
       /\ (pc' = "started" /\ pc # "started") => (pc = "loaded" /\ cycles = 0)]_vars

\* C15: the second cycle is in flight, started from the sleep that followed
\* the first.
C15_Witness ==
    /\ cycles = 2
    /\ pc = "walk"
    /\ target = LastTarget
    /\ results # <<>>

\* C16: the registry a scrape serves changes walk by walk: the step that ends
\* a clean walk applies every pair of that walk (the gauge holds the value,
\* the energy counter has risen by raw * 10), a step that ends no walk
\* publishes nothing, and a scrape serves the registry of that moment.
C16_ScrapeSeesWholeWalks ==
    [][/\ EndsWalkCleanly =>
            \A i \in 1..Len(ev'.results) :
                IF ev'.target = 1
                THEN CounterValue(energy_counter', ev'.results[i][1]) =
                        CounterValue(energy_counter, ev'.results[i][1])
                        + SumFor(ev'.results, ev'.results[i][1])
                ELSE GaugeHolds(voltage_gauge', current_gauge', ev'.target,
                                ev'.results[i][1], ev'.results[i][2])
       /\ ~EndsWalk => registry' = registry
       /\ ServesScrape => ev'.body = registry']_vars

\* Metric m before and n after a step agree outside the label sets written.
Untouched(m, n, written) ==
    \A key \in (DOMAIN m \cup DOMAIN n) \ written :
        key \in DOMAIN m /\ key \in DOMAIN n /\ m[key] = n[key]

\* The identifiers of the pairs of rs.
OidsOf(rs) == { rs[i][1] : i \in 1..Len(rs) }

\* C17: the step that ends a walk writes, for each pair it publishes, the one
\* label set of that pair: the voltage gauge of the identifier, the energy
\* counter of the identifier, or the current gauge of the server and the
\* identifier.  Every other label set of that metric and every other gauge
\* and energy counter is as before, and so is every failure counter when the
\* walk ended cleanly.
C17_ReadingWritesOneKey ==
    [][EndsWalk =>
        LET oids == OidsOf(ev'.results)
            name == IF ev'.target >= 2 THEN config.servers[ev'.target - 1].name
                    ELSE MissingName
        IN  /\ Untouched(voltage_gauge, voltage_gauge',
                         IF ev'.target = 0 THEN oids ELSE {})
            /\ Untouched(energy_counter, energy_counter',
                         IF ev'.target = 1 THEN oids ELSE {})
            /\ Untouched(current_gauge, current_gauge',
                         IF ev'.target >= 2 THEN { <<name, o>> : o \in oids } ELSE {})
            /\ ev'.target = 0 => oids \subseteq DOMAIN voltage_gauge'
            /\ ev'.target >= 2 => { <<name, o>> : o \in oids } \subseteq DOMAIN current_gauge'
            /\ ev'.outcome = "clean" => snmp_failures' = snmp_failures]_vars

\* C17: the second server's current walk publishes a pair while the voltage
\* gauge and the first server's current gauge hold values.
C17_Witness ==
    /\ ev.kind = "walk_end"
    /\ ev.target = 3
    /\ ev.results # <<>>
    /\ DOMAIN voltage_gauge # {}
    /\ Cardinality(DOMAIN current_gauge) = 2

\* The orders in which n results can be applied.
Orders(n) == { p \in [1..n -> 1..n] : \A i, j \in 1..n : p[i] = p[j] => i = j }

\* The cycle log replays to the registry in the order of poll_device.
LogReplays == ApplyWalks(cycle_log.reg0, cycle_log.walks) = registry

\* C18: within a cycle, applying the walks' results and failure records in
\* any permutation yields the same gauges, energy counters and failure
\* counters as the order voltage, energy, sub-targets of poll_device.
C18_OrderIndependent ==
    \A p \in Orders(Len(cycle_log.walks)) :
        ApplyWalks(cycle_log.reg0, [i \in 1..Len(cycle_log.walks) |-> cycle_log.walks[p[i]]])
            = registry
====
